---- MODULE Spec2Model ----
(***************************************************************************)
(* HubSpot -> Reevo import pipeline (src/main.py): the transformation      *)
(* engine HubSpotReevoTransformer and the five-stage wizard that drives it.*)
(*                                                                         *)
(* A Python str is a sequence of one-character strings, so that strip,     *)
(* lower, replace, split and urlparse are computed character by character. *)
(* A missing value (NaN / None) is Null.  A record is a function from the  *)
(* column names it holds to values; an absent column is outside DOMAIN.    *)
(***************************************************************************)
EXTENDS Integers, Sequences, FiniteSets, TLC

\* --------------------------------------------------------------- bounds
\* longest website input, counted in tokens of DomainTokens
MaxTokens == 3

\* calls made on one transformer: clean_domain is applied to a value and
\* then to its own result, get_best_phone to the same record again
MaxCalls == 2

\* most records in an uploaded table
MaxRecords == 2

\* --------------------------------------------------------------- values
\* NaN / None: a value that is no str (its one element is not a character)
Null == << "NaN" >>

\* pd.isna(x) / pd.notna(x)
isna(x) == x = Null
notna(x) == x # Null

\* ------------------------------------------------------------ str methods
\* str.isspace() of one character
isspace(c) == c \in {" ", "\t", "\n", "\r"}

RECURSIVE lstrip(_)
lstrip(s) ==
    IF s = << >> THEN s
    ELSE IF isspace(Head(s)) THEN lstrip(Tail(s)) ELSE s

RECURSIVE rstrip(_)
rstrip(s) ==
    IF s = << >> THEN s
    ELSE IF isspace(s[Len(s)]) THEN rstrip(SubSeq(s, 1, Len(s) - 1)) ELSE s

\* str.strip()
strip(s) == rstrip(lstrip(s))

\* the ASCII letters, upper case and lower case, in alphabet order
ascii_uppercase ==
    << "A", "B", "C", "D", "E", "F", "G", "H",
        "I", "J", "K", "L", "M", "N", "O", "P", "Q", "R", "S", "T", "U", "V", "W", "X", "Y", "Z" >>
ascii_lowercase ==
    << "a", "b", "c", "d", "e", "f", "g", "h",
        "i", "j", "k", "l", "m", "n", "o", "p", "q", "r", "s", "t", "u", "v", "w", "x", "y", "z" >>

\* str.lower() of one character
lowerchar(c) ==
    IF \E i \in 1..Len(ascii_uppercase) : ascii_uppercase[i] = c
    THEN ascii_lowercase[CHOOSE i \in 1..Len(ascii_uppercase) : ascii_uppercase[i] = c]
    ELSE c

RECURSIVE lower(_)
lower(s) == IF s = << >> THEN << >> ELSE << lowerchar(Head(s)) >> \o lower(Tail(s))

\* the least of the indexes hits, none when there is no index
least(hits, none) ==
    IF hits = {} THEN none ELSE CHOOSE j \in hits : \A k \in hits : j <= k

\* str.startswith(p)
startswith(s, p) == Len(s) >= Len(p) /\ SubSeq(s, 1, Len(p)) = p

\* 1-based index of the first occurrence of p in s, 0 when there is none
\* (str.find, which is 0-based with -1 for none)
find(s, p) ==
    least({j \in 1..(Len(s) - Len(p) + 1) : SubSeq(s, j, j + Len(p) - 1) = p}, 0)

\* p in s
contains(s, p) == find(s, p) # 0

\* str.replace(old, new): every non-overlapping occurrence, left to right
RECURSIVE replace(_, _, _)
\* with j the place of the first occurrence of old in s
replace_from(s, old, new, j) ==
    IF j = 0 THEN s
    ELSE SubSeq(s, 1, j - 1) \o new
         \o replace(SubSeq(s, j + Len(old), Len(s)), old, new)

replace(s, old, new) == replace_from(s, old, new, find(s, old))

\* 1-based index of the first character of s that is in cs, Len(s)+1 if none
firstof(s, cs) == least({j \in 1..Len(s) : s[j] \in cs}, Len(s) + 1)

\* s up to its first character in cs, and s from that character on
cut_at(s, d) == [head |-> SubSeq(s, 1, d - 1), tail |-> SubSeq(s, d, Len(s))]
cut(s, cs) == cut_at(s, firstof(s, cs))

\* str.split(sep)[0] for a one-character sep
split0(s, sep) == cut(s, {sep}).head

\* ---------------------------------------------------------------- literals
S_http == << "h", "t", "t", "p", ":", "/", "/" >>
S_https == << "h", "t", "t", "p", "s", ":", "/", "/" >>
S_www == << "w", "w", "w", "." >>
S_linkedin == << "l", "i", "n", "k", "e", "d", "i", "n", ".", "c", "o", "m" >>

\* -------------------------------------------------------------- urlparse
\* urllib.parse.urlparse of a url that starts with http:// or https://
\* (clean_domain never passes another): the scheme ends at the first ':',
\* the netloc runs from "//" to the first of / ? #, the path from there to
\* the first of ? #, less the ;params of its last segment.  An unbalanced
\* '[' or ']' in the netloc raises ValueError("Invalid IPv6 URL").
splitparams_from(path, from) ==
    IF firstof(SubSeq(path, from, Len(path)), {";"}) > Len(path) - from + 1
    THEN path
    ELSE SubSeq(path, 1, from + firstof(SubSeq(path, from, Len(path)), {";"}) - 2)

splitparams(path) ==
    splitparams_from(path, Len(path) + 1
                           - least({j \in 1..Len(path) :
                                      path[Len(path) + 1 - j] = "/"}, Len(path)))

\* the url after "scheme:" as its netloc and what follows it
split_netloc(rest) ==
    IF startswith(rest, << "/", "/" >>)
    THEN cut(SubSeq(rest, 3, Len(rest)), {"/", "?", "#"})
    ELSE [head |-> << >>, tail |-> rest]

unbalanced(netloc) == contains(netloc, << "[" >>) # contains(netloc, << "]" >>)

parse_result(parts) ==
    [raises |-> unbalanced(parts.head),
     netloc |-> parts.head,
     path |-> splitparams(cut(parts.tail, {"?", "#"}).head)]

urlparse(url) ==
    parse_result(split_netloc(SubSeq(url, find(url, << ":" >>) + 1, Len(url))))

\* ------------------------------------------------------------ clean_domain
\* a plausible slip: the comparison of line 150 without .lower()
domain_changed_cased(domain, original_website) == domain # original_website

\* line 150: the result differs from the lower-cased trimmed input
domain_changed(domain, original_website) == domain # lower(original_website)

\* the cleaning_step of lines 132-136 as it is when appended
domain_step(original_website, action, domain) ==
    [field |-> "Website -> Domain", original |-> original_website,
     action |-> action, cleaned |-> domain]

\* lines 150-155: append the step if the domain differs, return the domain
parsed_domain(original_website, action, domain, steps) ==
    [ret |-> domain,
     steps |-> IF domain_changed(domain, original_website)
               THEN Append(steps, domain_step(original_website,
                              Append(action, "Remove www/protocols"), domain))
               ELSE steps,
     fallback |-> FALSE]

\* a plausible slip: the except branch appending its step as the normal path
\* does, only when the domain differs
fallback_domain_if_changed(original_website, action, domain, steps) ==
    [ret |-> domain,
     steps |-> IF domain_changed(domain, original_website)
               THEN Append(steps, domain_step(original_website,
                              Append(action, "Fallback cleaning"), domain))
               ELSE steps,
     fallback |-> TRUE]

\* lines 158-163: the except branch
fallback_domain(original_website, action, domain, steps) ==
    [ret |-> domain,
     steps |-> Append(steps, domain_step(original_website,
                         Append(action, "Fallback cleaning"), domain)),
     fallback |-> TRUE]

\* lines 146-163, parsed being what urlparse made of the url
clean_parsed(original_website, action, parsed, steps) ==
    IF ~parsed.raises
    THEN parsed_domain(original_website, action,
           lower(replace(IF parsed.netloc # << >> THEN parsed.netloc
                         ELSE parsed.path, S_www, << >>)),
           steps)
    ELSE fallback_domain(original_website, action,
           lower(split0(replace(replace(replace(original_website,
                   S_http, << >>), S_https, << >>), S_www, << >>), "/")),
           steps)

\* lines 139-163
clean_stripped(original_website, steps) ==
    IF startswith(original_website, S_http) \/ startswith(original_website, S_https)
    THEN clean_parsed(original_website, << "Extract domain" >>,
                      urlparse(original_website), steps)
    ELSE clean_parsed(original_website, << "Extract domain", "Add https://" >>,
                      urlparse(S_https \o original_website), steps)

\* Returns [ret, steps, fallback]: the returned domain, self.cleaning_steps
\* after the call, and whether the except branch ran.
clean_domain(website, steps) ==
    IF isna(website) \/ website = << >>
    THEN [ret |-> << >>, steps |-> steps, fallback |-> FALSE]
    ELSE clean_stripped(strip(website), steps)

\* ------------------------------------------------------------- the engine
\* self.hubspot_to_reevo_mapping, in dict order: << source field, target >>
hubspot_to_reevo_mapping ==
    << << "First Name", "contact_first_name" >>,
       << "Last Name", "contact_last_name" >>,
       << "Email", "contact_primary_email" >>,
       << "Personal Linkedin URL", "contact_linkedin_url" >>,
       << "Job Title", "contact_account_role_title" >>,
       << "Company Name", "account_name" >>,
       << "Website", "account_domain_name" >>,
       << "Company Linkedin URL", "account_linkedin_url" >> >>

\* self.phone_fields, in priority order
phone_fields == << "Mobile", "Direct", "Office" >>

\* self.reevo_template_headers
reevo_template_headers ==
    << "contact_owner_id", "contact_first_name", "contact_last_name",
       "contact_primary_email", "contact_primary_phone_number", "contact_linkedin_url",
       "contact_account_role_title", "account_owner_id", "account_name",
       "account_domain_name", "account_linkedin_url" >>

\* the elements of a sequence
Range(s) == {s[i] : i \in 1..Len(s)}

\* d[k] = v on a dict: sets the key, adding it when it is new
setitem(d, k, v) == (k :> v) @@ d

\* str(x): a str is itself, a missing float prints as "nan"
str(x) == IF x = Null THEN << "n", "a", "n" >> ELSE x

\* ------------------------------------------------------------- clean_phone
isdigit(c) == c \in {"0", "1", "2", "3", "4", "5", "6", "7", "8", "9"}

\* a plausible slip: the pattern without its \s, whitespace removed too
phonechar_no_space(c) == isdigit(c) \/ c \in {"+", "-", "(", ")"}

\* the characters re.sub(r'[^\d\+\-\(\)\s]', '', s) keeps
phonechar(c) == isdigit(c) \/ c \in {"+", "-", "(", ")"} \/ isspace(c)

\* lines 176-184
cleaned_phone_of(original_phone, cleaned_phone, steps) ==
    [ret |-> cleaned_phone,
     steps |-> IF cleaned_phone # original_phone
               THEN Append(steps,
                      [field |-> "Phone Number",
                       original |-> original_phone,
                       cleaned |-> cleaned_phone,
                       action |-> << "Remove special characters" >>])
               ELSE steps]

\* lines 173-184
clean_stripped_phone(original_phone, steps) ==
    cleaned_phone_of(original_phone, SelectSeq(original_phone, phonechar), steps)

\* Returns [ret, steps].
clean_phone(phone, steps) ==
    IF isna(phone) \/ phone = << >>
    THEN [ret |-> << >>, steps |-> steps]
    ELSE clean_stripped_phone(strip(str(phone)), steps)

\* ---------------------------------------------------------- get_best_phone
\* the condition of line 196: the field is present, not missing, not blank
phone_available(record, field) ==
    /\ field \in DOMAIN record
    /\ notna(record[field])
    /\ strip(str(record[field])) # << >>

\* a plausible slip: lines 201-203 without the guard, so the last available
\* field wins
select_last(sel, field, phone_value) ==
    [selected_field |-> field,
     selected_value |-> phone_value,
     available_phones |-> Append(sel.available_phones, field)]

\* lines 198-203: record the field as available and select it if none is
\* selected yet; sel is phone_selection, selected_field None written as ""
select(sel, field, phone_value) ==
    IF sel.selected_field = ""
    THEN [selected_field |-> field,
          selected_value |-> phone_value,
          available_phones |-> Append(sel.available_phones, field)]
    ELSE [sel EXCEPT !.available_phones = Append(@, field)]

\* a plausible slip: line 206 testing the selected value, not the field
selection_made_value(sel) == sel.selected_value # << >>

\* line 206: a field was selected
selection_made(sel) == sel.selected_field # ""

\* lines 198-203 for one field, c being what clean_phone returned
phone_cleaned(sel, field, c) ==
    [sel |-> select(sel, field, c.ret), steps |-> c.steps]

\* the loop of lines 195-203 from phone field i on; r is [sel, steps]
RECURSIVE phone_loop(_, _, _)
phone_loop(record, i, r) ==
    IF i > Len(phone_fields) THEN r
    ELSE IF phone_available(record, phone_fields[i])
    THEN phone_loop(record, i + 1,
                    phone_cleaned(r.sel, phone_fields[i],
                                  clean_phone(record[phone_fields[i]], r.steps)))
    ELSE phone_loop(record, i + 1, r)

\* lines 206-214
phone_selected(sel, steps) ==
    [ret |-> sel.selected_value,
     steps |-> IF selection_made(sel)
               THEN Append(steps,
                      [field |-> "Phone Selection",
                       original |-> << "Available: ", sel.available_phones >>,
                       cleaned |-> sel.selected_value,
                       action |-> << "Selected ", sel.selected_field,
                                     " (highest priority)" >>])
               ELSE steps]

phone_looped(r) == phone_selected(r.sel, r.steps)

\* Returns [ret, steps].
get_best_phone(record, steps) ==
    phone_looped(phone_loop(record, 1,
        [sel |-> [selected_field |-> "", selected_value |-> << >>,
                  available_phones |-> << >>],
         steps |-> steps]))

\* -------------------------------------------------------- transform_record
\* line 257 with what clean_domain returned
field_cleaned(reevo_field, c, r) ==
    [transformed |-> setitem(r.transformed, reevo_field, c.ret), steps |-> c.steps]

\* a plausible slip: every mapped field routed through clean_domain
map_field_cleaned(reevo_field, original_value, r) ==
    field_cleaned(reevo_field, clean_domain(original_value, r.steps), r)

\* lines 250-257 for one mapping entry, original_value the stripped cell
map_field(reevo_field, original_value, r) ==
    IF reevo_field = "account_domain_name"
    THEN field_cleaned(reevo_field, clean_domain(original_value, r.steps), r)
    ELSE [r EXCEPT !.transformed = setitem(@, reevo_field, original_value)]

\* the loop of lines 248-257 from mapping entry i on; r is
\* [transformed, steps]
RECURSIVE map_fields(_, _, _)
map_fields(record, i, r) ==
    IF i > Len(hubspot_to_reevo_mapping) THEN r
    ELSE IF /\ hubspot_to_reevo_mapping[i][1] \in DOMAIN record
            /\ notna(record[hubspot_to_reevo_mapping[i][1]])
    THEN map_fields(record, i + 1,
                    map_field(hubspot_to_reevo_mapping[i][2],
                              strip(str(record[hubspot_to_reevo_mapping[i][1]])),
                              r))
    ELSE map_fields(record, i + 1, r)

\* a plausible slip: the owner stamped with no step appended for it
set_owner_silent(r, key, label, action, owner) ==
    IF owner # << >>
    THEN [r EXCEPT !.transformed = setitem(@, key, owner)]
    ELSE r

\* the owner stamping of lines 229-245; an owner id is a str, "" when unset
set_owner(r, key, label, action, owner) ==
    IF owner # << >>
    THEN [transformed |-> setitem(r.transformed, key, owner),
          steps |-> Append(r.steps,
                      [field |-> label, original |-> << "E", "m", "p", "t", "y" >>,
                       cleaned |-> owner, action |-> << action >>])]
    ELSE r

\* a plausible slip: the initialisation of lines 225-226 left out
init_fields_none == << >>

\* lines 225-226: every template field set to ''
init_fields == [h \in Range(reevo_template_headers) |-> << >>]

\* line 268 with what get_best_phone returned
phone_got(transformed, p) ==
    [transformed |-> setitem(transformed, "contact_primary_phone_number", p.ret),
     steps |-> p.steps]

\* lines 268-270, m being the record and the steps after the mapping loop
phone_set(record, m) ==
    phone_got(m.transformed, get_best_phone(record, m.steps))

\* a plausible slip: line 222 left out, the buffer kept as it was
clear_steps_kept(buffer) == buffer

\* line 222, self.cleaning_steps = []: what the buffer holds afterwards
clear_steps(buffer) == << >>

\* lines 225-270 with the buffer holding steps
transform_from(steps, record, record_index, contact_owner, account_owner) ==
    phone_set(record,
      map_fields(record, 1,
        set_owner(
          set_owner([transformed |-> init_fields, steps |-> steps],
                    "contact_owner_id", "Contact Owner",
                    "Set default contact owner", contact_owner),
          "account_owner_id", "Account Owner",
          "Set default account owner", account_owner)))

\* transform_record on an engine whose self.cleaning_steps holds buffer.
\* Returns [transformed, steps]; steps is self.cleaning_steps after the call.
transform_record_on(buffer, record, record_index, contact_owner, account_owner) ==
    transform_from(clear_steps(buffer), record, record_index,
                   contact_owner, account_owner)

\* transform_record on an engine that has just been made
transform_record(record, record_index, contact_owner, account_owner) ==
    transform_record_on(<< >>, record, record_index, contact_owner, account_owner)

\* a plausible slip: line 222 emptying the list in place, so that a list
\* returned earlier stays the buffer
rebind_in_place(held) == held

\* line 222 makes a new list: held, a list a call returned with whether it
\* is the engine's buffer, is that buffer no longer
rebind(held) == [held EXCEPT !.is_buffer = FALSE]

\* a list a call returned, as the buffer then holding steps leaves it
follow(held, steps) == IF held.is_buffer THEN [held EXCEPT !.items = steps] ELSE held

\* ---------------------------------------------------------- validate_email
isalpha(c) == c \in Range(ascii_uppercase) \cup Range(ascii_lowercase)
localchar(c) == isalpha(c) \/ isdigit(c) \/ c \in {".", "_", "%", "+", "-"}
domainchar(c) == isalpha(c) \/ isdigit(c) \/ c \in {".", "-"}

\* re.match(r'^[a-zA-Z0-9._%+-]+@[a-zA-Z0-9.-]+\.[a-zA-Z]{2,}$', s):
\* '$' also matches just before one trailing newline
email_match(s) ==
    LET ends == IF s # << >> /\ s[Len(s)] = "\n"
                THEN {Len(s), Len(s) - 1} ELSE {Len(s)}
    IN  \E n \in ends : \E a \in 2..n : \E d \in (a + 2)..(n - 2) :
          /\ s[a] = "@"
          /\ s[d] = "."
          /\ \A k \in 1..(a - 1) : localchar(s[k])
          /\ \A k \in (a + 1)..(d - 1) : domainchar(s[k])
          /\ \A k \in (d + 1)..n : isalpha(s[k])

validate_email(email) ==
    IF isna(email) \/ email = << >> THEN FALSE ELSE email_match(str(email))

\* --------------------------------------------------------- validate_record
required_checks ==
    << << "contact_first_name", "First Name" >>,
       << "contact_last_name", "Last Name" >>,
       << "account_name", "Company Name" >>,
       << "account_domain_name", "Website/Domain" >> >>

linkedin_fields ==
    << << "contact_linkedin_url", "Personal LinkedIn" >>,
       << "account_linkedin_url", "Company LinkedIn" >> >>

\* record.get(key, '')
get(record, key) == IF key \in DOMAIN record THEN record[key] ELSE << >>

\* record.get(key, default)
get_or(record, key, default) == IF key \in DOMAIN record THEN record[key] ELSE default

\* the default name of line 907
Unknown == << "U", "n", "k", "n", "o", "w", "n" >>

\* a message f"Row {index + 1}: {text}" with the field it names, "" if none
message(index, text, field) == [row |-> index + 1, text |-> text, field |-> field]

\* line 286: not v.strip()
blank(v) == strip(v) = << >>

\* line 308: url and 'linkedin.com' not in url.lower()
implausible(url) == url # << >> /\ ~contains(lower(url), S_linkedin)

\* the fields of the pairs of checks, read with record.get(field_name, '')
fields_read(record, checks) ==
    [i \in 1..Len(checks) |-> get(record, checks[i][1])]

\* the loops of lines 285-287 and 306-309: a message for each pair of checks
\* whose field is flagged, in order
check_loop(index, checks, text, flagged) ==
    LET hit(i) == flagged[i]
        hits == SelectSeq([i \in 1..Len(checks) |-> i], hit)
    IN  [j \in 1..Len(hits) |-> message(index, text, checks[hits[j]][2])]

\* the required fields that are blank, as flags
blank_flags(record) ==
    LET read == fields_read(record, required_checks)
    IN  [i \in 1..Len(read) |-> blank(read[i])]

\* the LinkedIn fields that hold something else than a LinkedIn address
implausible_flags(record) ==
    LET read == fields_read(record, linkedin_fields)
    IN  [i \in 1..Len(read) |-> implausible(read[i])]

\* a plausible slip: the loop of lines 285-287 stopping at the first error
required_errors_first(record, index) ==
    LET all == check_loop(index, required_checks, "Missing required field",
                          blank_flags(record))
    IN  SubSeq(all, 1, IF all = << >> THEN 0 ELSE 1)

\* lines 285-287: one error for each required field that is blank
required_errors(record, index) ==
    check_loop(index, required_checks, "Missing required field",
               blank_flags(record))

\* a plausible slip: line 293 with "or" for "and"
either_or_errors_any(index, has_email, has_phone) ==
    IF ~has_email \/ ~has_phone
    THEN << message(index, "Must have either email or phone number", "") >>
    ELSE << >>

\* lines 293-294: one error when there is neither an email nor a phone
either_or_errors(index, has_email, has_phone) ==
    IF ~has_email /\ ~has_phone
    THEN << message(index, "Must have either email or phone number", "") >>
    ELSE << >>

\* Returns [raises, errors, warnings].  A missing value has no strip() and
\* no lower(): the call raises AttributeError at the first one it reads
\* (lines 286, 290, 291, 308).
validate_record(record, index) ==
    LET stripped == {c[1] : c \in Range(required_checks)}
                    \cup {"contact_primary_email", "contact_primary_phone_number"}
        lowered == {c[1] : c \in Range(linkedin_fields)}
        has_email == ~blank(get(record, "contact_primary_email"))
        has_phone == ~blank(get(record, "contact_primary_phone_number"))
    IN  IF \E k \in stripped \cup lowered : isna(get(record, k))
        THEN [raises |-> TRUE, errors |-> << >>, warnings |-> << >>]
        ELSE [raises |-> FALSE,
              errors |->
                required_errors(record, index)
                \o either_or_errors(index, has_email, has_phone)
                \o (IF has_email /\ ~validate_email(record["contact_primary_email"])
                    THEN << message(index, "Invalid email format", "") >>
                    ELSE << >>),
              warnings |->
                check_loop(index, linkedin_fields, "URL may be invalid",
                           implausible_flags(record))]

\* ------------------------------------------------------------------ state
VARIABLES
    \* st.session_state
    step, raw_data, transformed_data, cleaning_log, contact_owner, account_owner,
    \* the widgets: the file uploader and the two owner text inputs
    uploaded_file, contact_owner_input, account_owner_input,
    \* what the last script run computed and showed
    view,
    \* a transformer called directly: the arguments, the calls made so far
    \* and self.cleaning_steps
    arg, calls, cleaning_steps

vars == << step, raw_data, transformed_data, cleaning_log, contact_owner, account_owner,
           uploaded_file, contact_owner_input, account_owner_input, view,
           arg, calls, cleaning_steps >>

session == << step, raw_data, transformed_data, cleaning_log, contact_owner, account_owner >>
widgets == << uploaded_file, contact_owner_input, account_owner_input >>
engine == << arg, calls, cleaning_steps >>

\* st.session_state.raw_data / transformed_data = None
None == [none |-> TRUE]

\* the view of a script run that has shown nothing: the error shown, the
\* buttons rendered, the lists of the validation stage once it has run, the
\* table of the export stage and the text of the download once made
NoView == [error |-> "", buttons |-> {}, validated |-> FALSE, valid_records |-> << >>,
           invalid_records |-> << >>, final_df |-> None,
           exported |-> FALSE, csv_data |-> << >>]

\* the session as main() initialises it (lines 466-473), no file uploaded
InitWizard ==
    /\ step = 1
    /\ raw_data = None
    /\ transformed_data = None
    /\ cleaning_log = << >>
    /\ contact_owner = << >>
    /\ account_owner = << >>
    /\ uploaded_file = None
    /\ contact_owner_input = << >>
    /\ account_owner_input = << >>
    /\ view = NoView

\* HubSpotReevoTransformer(): an empty buffer, nothing called yet
InitEngine ==
    /\ calls = << >>
    /\ cleaning_steps = << >>

\* ------------------------------------------------- inputs: website values
DomainTokens ==
    { S_https, S_http, S_www,
      << "W", "W", "W", "." >>,
      << "a", "y", "r", "w", "e", "l", "l", "n", "e", "s", "s", ".", "c", "o", "m" >>,
      << "t", "e", "r", "r", "a", "s", "c", "e", "n", "d", ".", "c", "o", "m" >>,
      << "e", "w", "w", "w", ".", "c", "o", "m" >>,
      << "B" >>, << "/" >>, << "[" >>, << " " >> }

\* every concatenation of at most n strings of toks
RECURSIVE TokenStrings(_, _)
TokenStrings(toks, n) ==
    IF n = 0 THEN {<< >>}
    ELSE LET shorter == TokenStrings(toks, n - 1)
         IN  shorter \cup {s \o k : s \in shorter, k \in toks}

\* the websites of show_data_cleaning_demo (lines 321, 327)
DemoClean == << "a", "y", "r", "w", "e", "l", "l", "n", "e", "s", "s", ".", "c", "o", "m" >>
DemoUrl == S_https \o S_www \o << "t", "e", "r", "r", "a", "s", "c", "e", "n", "d", ".", "c", "o", "m" >> \o << "/" >>

DomainInputs == TokenStrings(DomainTokens, MaxTokens) \cup {Null, DemoClean, DemoUrl}

\* ------------------------------------------------ clean_domain, by itself
InitDomain ==
    /\ InitWizard
    /\ InitEngine
    /\ arg \in DomainInputs

\* clean_domain(arg), then clean_domain of what it returned
CallCleanDomain ==
    /\ Len(calls) < MaxCalls
    /\ LET website == IF calls = << >> THEN arg ELSE calls[Len(calls)].ret
           r == clean_domain(website, cleaning_steps)
       IN  /\ calls' = Append(calls, [op |-> "clean_domain", arg |-> website,
                                      ret |-> r.ret, fallback |-> r.fallback,
                                      before |-> cleaning_steps, after |-> r.steps])
           /\ cleaning_steps' = r.steps
    /\ UNCHANGED << session, widgets, view, arg >>

SpecDomain == InitDomain /\ [][CallCleanDomain]_vars

\* ------------------------------------------------- clean_domain: claims
\* the steps a call appended to the buffer
Appended(c) == SubSeq(c.after, Len(c.before) + 1, Len(c.after))

\* every call left the steps that were in the buffer before it in place
KeepsBuffer(c) ==
    /\ Len(c.after) >= Len(c.before)
    /\ SubSeq(c.after, 1, Len(c.before)) = c.before

\* C6: clean_domain is idempotent: whenever the first pass did not take the
\* fallback path, cleaning its result again returns that result.
C6_Idempotent ==
    (Len(calls) >= 2 /\ ~calls[1].fallback) => calls[2].ret = calls[1].ret

\* C7: on the normal path a call appends one step when the lower-cased
\* result differs from the lower-cased trimmed input and none otherwise;
\* empty or null input gives "" and no step; the clean bare domain
\* ayrwellness.com comes back unchanged with no step.
C7_StepIffChanged ==
    \A i \in 1..Len(calls) :
      LET c == calls[i]
      IN  ~c.fallback =>
            /\ KeepsBuffer(c)
            /\ Len(Appended(c)) <= 1
            /\ c.arg \in {Null, << >>} => (c.ret = << >> /\ Appended(c) = << >>)
            /\ c.arg \notin {Null, << >>} =>
                 /\ Len(Appended(c)) = 1 <=> lower(c.ret) # lower(strip(c.arg))
                 /\ Len(Appended(c)) = 1 =>
                      /\ Appended(c)[1].original = strip(c.arg)
                      /\ Appended(c)[1].cleaned = c.ret
                      /\ Appended(c)[1].action[1] = "Extract domain"
            /\ c.arg = DemoClean => (c.ret = DemoClean /\ Appended(c) = << >>)

\* C7 witness: the demo url was cleaned with one step appended, and its
\* result, a clean bare domain, was cleaned again with none
C7_Witness ==
    /\ Len(calls) >= 2
    /\ calls[1].arg = DemoUrl
    /\ ~calls[1].fallback /\ ~calls[2].fallback
    /\ Len(Appended(calls[1])) = 1
    /\ calls[2].arg = << "t", "e", "r", "r", "a", "s", "c", "e", "n", "d", ".", "c", "o", "m" >>
    /\ Appended(calls[2]) = << >>

\* the website values of the form [http:// or https://][www.]host[/path]
Protocols == {<< >>, S_http, S_https}
HostTokens ==
    { << "a", "y", "r", "w", "e", "l", "l", "n", "e", "s", "s", ".", "c", "o", "m" >>,
      << "t", "e", "r", "r", "a", "s", "c", "e", "n", "d", ".", "c", "o", "m" >>,
      << "e", "w", "w", "w", ".", "c", "o", "m" >>,
      << "B" >> }
HostNames == TokenStrings(HostTokens, MaxTokens) \ {<< >>}

\* C8: for every input [http:// or https://][www.]host[/path] clean_domain
\* returns the lower-cased host.
C8_HostExtracted ==
    calls # << >> =>
      \A p \in Protocols, w \in {<< >>, S_www}, h \in HostNames :
        LET pre == p \o w \o h
        IN  (/\ calls[1].arg # Null
             /\ startswith(calls[1].arg, pre)
             /\ (Len(calls[1].arg) = Len(pre) \/ calls[1].arg[Len(pre) + 1] = "/"))
            => calls[1].ret = lower(h)

\* ------------------------------------------------ get_best_phone, by itself
\* a cell of a phone column: the column absent, a missing value, or a str
Absent == << "absent" >>
PhoneCells ==
    { Absent, Null, << >>, << " " >>,
      << "+", "1", " ", "2" >>, << " ", "(", "2", ")", " " >>,
      << "x", "5" >>, << "e", "x", "t" >> }

\* the record that holds cell cells[c] in column c, absent columns left out
Record(cells) == [c \in {d \in DOMAIN cells : cells[d] # Absent} |-> cells[c]]

PhoneRecords == {Record(cells) : cells \in [Range(phone_fields) -> PhoneCells]}

InitPhone ==
    /\ InitWizard
    /\ InitEngine
    /\ arg \in PhoneRecords

CallGetBestPhone ==
    /\ Len(calls) < MaxCalls
    /\ LET r == get_best_phone(arg, cleaning_steps)
       IN  /\ calls' = Append(calls, [op |-> "get_best_phone", arg |-> arg,
                                      ret |-> r.ret,
                                      before |-> cleaning_steps, after |-> r.steps])
           /\ cleaning_steps' = r.steps
    /\ UNCHANGED << session, widgets, view, arg >>

SpecPhone == InitPhone /\ [][CallGetBestPhone]_vars

\* the phone fields of a record that are present, not missing and not
\* blank after trimming, in the order Mobile, Direct, Office
Usable(record, f) ==
    f \in DOMAIN record /\ record[f] # Null /\ strip(record[f]) # << >>
UsableFields(record) ==
    LET usable(f) == Usable(record, f)
    IN  SelectSeq(<< "Mobile", "Direct", "Office" >>, usable)

\* C4: get_best_phone returns the cleaned value of the first of Mobile,
\* Direct, Office that is present, non-null and non-blank; a later field
\* never overrides an earlier one.
C4_FirstAvailableWins ==
    \A i \in 1..Len(calls) :
      LET c == calls[i]
          usable == UsableFields(c.arg)
      IN  /\ usable # << >> => c.ret = clean_phone(c.arg[usable[1]], << >>).ret
          /\ (Usable(c.arg, "Mobile") /\ Usable(c.arg, "Direct"))
               => c.ret = clean_phone(c.arg["Mobile"], << >>).ret
          /\ (~Usable(c.arg, "Mobile") /\ Usable(c.arg, "Direct"))
               => c.ret = clean_phone(c.arg["Direct"], << >>).ret

\* C4 witness: Mobile and Direct are both usable with different cleaned
\* values, and the call returned the Mobile one
C4_Witness ==
    /\ calls # << >>
    /\ Usable(arg, "Mobile") /\ Usable(arg, "Direct")
    /\ clean_phone(arg["Mobile"], << >>).ret # clean_phone(arg["Direct"], << >>).ret
    /\ calls[1].ret = << "+", "1", " ", "2" >>

\* the Phone Selection steps among the steps a call appended
SelectionSteps(c) ==
    LET is_selection(s) == s.field = "Phone Selection"
    IN  SelectSeq(Appended(c), is_selection)

\* C5: with at least one phone field available the call appends exactly one
\* Phone Selection step, which lists all the available fields and names the
\* selected field and value; with none it returns "" and appends nothing.
C5_OneSelectionStep ==
    \A i \in 1..Len(calls) :
      LET c == calls[i]
          usable == UsableFields(c.arg)
      IN  /\ KeepsBuffer(c)
          /\ usable # << >> =>
               /\ Len(SelectionSteps(c)) = 1
               /\ SelectionSteps(c)[1] = c.after[Len(c.after)]
               /\ SelectionSteps(c)[1].original = << "Available: ", usable >>
               /\ SelectionSteps(c)[1].action
                    = << "Selected ", usable[1], " (highest priority)" >>
               /\ SelectionSteps(c)[1].cleaned = c.ret
          /\ usable = << >> => (c.ret = << >> /\ Appended(c) = << >>)

\* C5 witness: a call with two fields available appended its one selection
\* step behind a clean_phone step, and a call before it had done the same
C5_Witness ==
    /\ Len(calls) >= 2
    /\ Len(UsableFields(arg)) = 2
    /\ Len(Appended(calls[2])) > 1
    /\ Len(SelectionSteps(calls[2])) = 1

\* --------------------------------------------- validate_record, by itself
\* the row indexes validate_record is called with
MaxIndex == 1

RequiredCells == {Absent, Null, << >>, << " " >>, << "x" >>}
\* the address of the demo table, line 339, and one without an '@'
DemoEmail ==
    << "b", "e", "n", "j", "a", "m", "i", "n", ".", "r", "o", "g", "e", "r", "s", "@" >>
    \o DemoClean
DemoBadEmail == << "n", "o", "t", "-", "a", "n", "-", "e", "m", "a", "i", "l" >>

EmailCells ==
    { << >>, << " " >>, << "a", "@", "b", ".", "c", "o" >>, << "b", "a", "d" >>,
      DemoEmail, DemoBadEmail,
      << "a", "@", "b", ".", "c" >>,
      << " ", "a", "@", "b", ".", "c", "o" >>,
      << "a", "@", "b", ".", "c", "o", "\n" >> }
NumberCells == {<< >>, << " " >>, << "1" >>}
LinkedinCells ==
    { [contact_linkedin_url |-> << >>, account_linkedin_url |-> << >>],
      [contact_linkedin_url |-> << "x" >>,
       account_linkedin_url |-> << "L", "i", "n", "k", "e", "d", "I", "n", ".", "c", "o", "m" >>],
      [contact_linkedin_url |-> << " " >>, account_linkedin_url |-> << "x" >>] }

DestinationRecords ==
    { Record([contact_owner_id |-> << >>,
              contact_first_name |-> r[1],
              contact_last_name |-> r[2],
              contact_primary_email |-> e,
              contact_primary_phone_number |-> n,
              contact_linkedin_url |-> l.contact_linkedin_url,
              contact_account_role_title |-> << >>,
              account_owner_id |-> << >>,
              account_name |-> r[3],
              account_domain_name |-> r[4],
              account_linkedin_url |-> l.account_linkedin_url]) :
        r \in RequiredCells \X RequiredCells \X RequiredCells \X RequiredCells,
        e \in EmailCells, n \in NumberCells, l \in LinkedinCells }

InitValidate ==
    /\ InitWizard
    /\ InitEngine
    /\ arg \in [record : DestinationRecords, index : 0..MaxIndex]

CallValidateRecord ==
    /\ calls = << >>
    /\ LET r == validate_record(arg.record, arg.index)
       IN  calls' = << [op |-> "validate_record", arg |-> arg, raises |-> r.raises,
                        errors |-> r.errors, warnings |-> r.warnings] >>
    /\ UNCHANGED << session, widgets, view, arg, cleaning_steps >>

SpecValidate == InitValidate /\ [][CallValidateRecord]_vars

\* a destination record as the data model types it: every value a str
AllStr(record) == \A k \in DOMAIN record : record[k] # Null

\* a field that is blank after trimming (an absent field reads as '')
Blank(record, f) == f \notin DOMAIN record \/ strip(record[f]) = << >>

\* the messages of a sequence with the given text
WithText(msgs, text) ==
    LET has(m) == m.text = text
    IN  SelectSeq(msgs, has)

\* the required fields with the names they are displayed under
DisplayName ==
    [contact_first_name |-> "First Name", contact_last_name |-> "Last Name",
     account_name |-> "Company Name", account_domain_name |-> "Website/Domain"]

\* C9: for each required field that is blank after trimming validate_record
\* emits exactly one error, naming row index+1 and the field's display
\* name, whatever the other fields hold: the required-field errors are as
\* many as the blank required fields.  The records are destination records
\* as transform_record makes them, every value a string.
C9_OneErrorPerBlankRequired ==
    \A i \in 1..Len(calls) :
      LET c == calls[i]
          missing == WithText(c.errors, "Missing required field")
      IN  AllStr(c.arg.record) =>
            /\ ~c.raises
            /\ \A f \in DOMAIN DisplayName :
                 Cardinality({j \in 1..Len(missing) :
                                missing[j].field = DisplayName[f]})
                   = IF Blank(c.arg.record, f) THEN 1 ELSE 0
            /\ \A j \in 1..Len(missing) :
                 /\ missing[j].row = c.arg.index + 1
                 /\ \E f \in DOMAIN DisplayName : missing[j].field = DisplayName[f]
            /\ Len(missing)
                 = Cardinality({f \in DOMAIN DisplayName : Blank(c.arg.record, f)})

\* C9 witness: first name and domain are blank, the last name and the
\* company are not, and the email is malformed: two required-field errors
\* beside an error of another rule
C9_Witness ==
    /\ calls # << >>
    /\ AllStr(arg.record)
    /\ Blank(arg.record, "contact_first_name") /\ ~Blank(arg.record, "contact_last_name")
    /\ ~Blank(arg.record, "account_name") /\ Blank(arg.record, "account_domain_name")
    /\ Len(WithText(calls[1].errors, "Missing required field")) = 2
    /\ Len(WithText(calls[1].errors, "Invalid email format")) = 1

\* C10: validate_record emits exactly one either-or error if and only if
\* the email and the phone number are both blank after trimming, whatever
\* other errors the record has.  The records are destination records as
\* transform_record makes them, every value a string.
C10_EitherOr ==
    \A i \in 1..Len(calls) :
      LET c == calls[i]
          either == WithText(c.errors, "Must have either email or phone number")
      IN  AllStr(c.arg.record) =>
            /\ ~c.raises
            /\ Len(either) =
                 IF Blank(c.arg.record, "contact_primary_email")
                    /\ Blank(c.arg.record, "contact_primary_phone_number")
                 THEN 1 ELSE 0
            /\ \A j \in 1..Len(either) : either[j].row = c.arg.index + 1

\* C10 witness: email and phone are both blank (the email only after
\* trimming), every required field is blank too, and the either-or error
\* stands beside the four required-field errors
C10_Witness ==
    /\ calls # << >>
    /\ AllStr(arg.record)
    /\ arg.record["contact_primary_email"] = << " " >>
    /\ Blank(arg.record, "contact_primary_phone_number")
    /\ Len(WithText(calls[1].errors, "Must have either email or phone number")) = 1
    /\ Len(WithText(calls[1].errors, "Missing required field")) = 4
    /\ Len(calls[1].errors) = 5

\* s is, from its first character to its last, a local part of one or more
\* of [A-Za-z0-9._%+-], an '@', a domain of one or more of [A-Za-z0-9.-],
\* a '.', and two or more letters
WellFormed(s) ==
    \E a \in 2..Len(s) : \E d \in (a + 2)..(Len(s) - 2) :
      /\ s[a] = "@"
      /\ s[d] = "."
      /\ \A k \in 1..(a - 1) : localchar(s[k])
      /\ \A k \in (a + 1)..(d - 1) : domainchar(s[k])
      /\ \A k \in (d + 1)..Len(s) : isalpha(s[k])

\* C11: validate_record emits exactly one 'Invalid email format' error if
\* and only if the email is not blank and is not, from end to end, a local
\* part, '@', a domain, '.', and a top-level domain of two or more letters;
\* a blank email is never format-checked; the demo address passes and
\* 'not-an-email' fails.  The records are destination records, every value
\* a string.
C11_EmailFormat ==
    \A i \in 1..Len(calls) :
      LET c == calls[i]
          format == WithText(c.errors, "Invalid email format")
          email == get(c.arg.record, "contact_primary_email")
      IN  AllStr(c.arg.record) =>
            /\ ~c.raises
            /\ Len(format) =
                 IF ~Blank(c.arg.record, "contact_primary_email") /\ ~WellFormed(email)
                 THEN 1 ELSE 0
            /\ \A j \in 1..Len(format) : format[j].row = c.arg.index + 1
            /\ email = DemoEmail => format = << >>
            /\ email = DemoBadEmail => Len(format) = 1

\* the LinkedIn fields with the names they are displayed under
LinkedinName ==
    [contact_linkedin_url |-> "Personal LinkedIn",
     account_linkedin_url |-> "Company LinkedIn"]

\* the record with its LinkedIn fields emptied
NoLinkedin(record) ==
    [k \in DOMAIN record |-> IF k \in DOMAIN LinkedinName THEN << >> ELSE record[k]]

\* C12: for each of the two LinkedIn fields a non-blank value without the
\* case-insensitive substring 'linkedin.com' produces one warning naming
\* the row and the field, and never an error; a blank value produces no
\* warning.  The records are destination records, every value a string.
C12_LinkedinWarning ==
    \A i \in 1..Len(calls) :
      LET c == calls[i]
      IN  AllStr(c.arg.record) =>
            /\ ~c.raises
            /\ \A f \in DOMAIN LinkedinName :
                 Cardinality({j \in 1..Len(c.warnings) :
                                c.warnings[j].field = LinkedinName[f]})
                   = IF /\ ~Blank(c.arg.record, f)
                        /\ ~contains(lower(c.arg.record[f]), S_linkedin)
                     THEN 1 ELSE 0
            /\ \A j \in 1..Len(c.warnings) :
                 /\ c.warnings[j].row = c.arg.index + 1
                 /\ c.warnings[j].text = "URL may be invalid"
            /\ c.errors = validate_record(NoLinkedin(c.arg.record), c.arg.index).errors

\* C13: validate_record never raises: for every record, whatever fields are
\* absent, missing, blank or malformed, it returns its errors and warnings.
C13_NeverRaises ==
    \A i \in 1..Len(calls) : ~calls[i].raises

\* -------------------------------------------- transform_record, by itself
\* the columns of a source record: the mapped ones, the phone ones and one
\* that nothing maps
SourceColumns ==
    {m[1] : m \in Range(hubspot_to_reevo_mapping)} \cup Range(phone_fields)
    \cup {"Lead Status"}

\* what a cell of a source column may hold: nothing (the column is absent),
\* a missing value, a blank, a usual value, an unusual one
CellKinds == {"absent", "null", "blank", "usual", "unusual"}

UsualCell ==
    [c \in SourceColumns |->
       CASE c = "First Name" -> << "A", "n", "n" >>
         [] c = "Last Name" -> << "L", "e", "e" >>
         [] c = "Email" -> << "a", "@", "b", ".", "c", "o" >>
         [] c = "Website" -> DemoUrl
         [] c = "Mobile" -> << "+", "1", " ", "2" >>
         [] c = "Direct" -> << "x", "5" >>
         [] c = "Office" -> << "(", "3", ")" >>
         [] c \in {"Personal Linkedin URL", "Company Linkedin URL"} -> S_linkedin
         [] OTHER -> << "C", "E", "O" >>]

UnusualCell ==
    [c \in SourceColumns |->
       CASE c = "Website" -> << "[", "B" >>
         [] c = "Mobile" -> << "e", "x", "t" >>
         [] c = "Email" -> << "b", "a", "d" >>
         [] OTHER -> << " " >> \o UsualCell[c] \o << " " >>]

Cell(c, kind) ==
    CASE kind = "absent" -> Absent
      [] kind = "null" -> Null
      [] kind = "blank" -> << " " >>
      [] kind = "usual" -> UsualCell[c]
      [] OTHER -> UnusualCell[c]

\* the records whose columns all hold one kind of cell but for at most two
SourceRecords ==
    { Record([c \in SourceColumns |->
                Cell(c, IF c = c1 THEN k1 ELSE IF c = c2 THEN k2 ELSE k0)]) :
        c1 \in SourceColumns, c2 \in SourceColumns,
        k0 \in CellKinds, k1 \in CellKinds, k2 \in CellKinds }

\* an owner id as typed into the text input: nothing or an address
OwnerIds == {<< >>, << "o", "@", "x", ".", "i", "o" >>}

\* the usual record with, as its website, nothing or one token
WebsiteRecords ==
    { [Record(UsualCell) EXCEPT !["Website"] = w] : w \in TokenStrings(DomainTokens, 1) }

InitTransform ==
    /\ InitWizard
    /\ InitEngine
    /\ arg \in [record : SourceRecords \cup WebsiteRecords, record_index : {0},
                contact_owner : OwnerIds \cup {<< " " >>}, account_owner : OwnerIds]

CallTransformRecord ==
    /\ calls = << >>
    /\ LET r == transform_record_on(cleaning_steps, arg.record, arg.record_index,
                                    arg.contact_owner, arg.account_owner)
       IN  /\ calls' = << [op |-> "transform_record", arg |-> arg,
                           ret |-> r, before |-> cleaning_steps] >>
           /\ cleaning_steps' = r.steps
    /\ UNCHANGED << session, widgets, view, arg >>

SpecTransform == InitTransform /\ [][CallTransformRecord]_vars

\* a value that is a str: not the missing value
IsStr(v) == v # Null /\ \A i \in 1..Len(v) : v[i] # Null[1]

\* the 11 fields of the import template
TemplateFields ==
    { "contact_owner_id", "contact_first_name", "contact_last_name",
      "contact_primary_email", "contact_primary_phone_number", "contact_linkedin_url",
      "contact_account_role_title", "account_owner_id", "account_name",
      "account_domain_name", "account_linkedin_url" }

\* C2: whatever columns the source record holds and whatever they hold,
\* transform_record returns a record whose keys are exactly the 11 template
\* fields and whose values are all non-null strings.
C2_ElevenStrings ==
    \A i \in 1..Len(calls) :
      LET transformed == calls[i].ret.transformed
      IN  /\ DOMAIN transformed = TemplateFields
          /\ Cardinality(DOMAIN transformed) = 11
          /\ \A k \in DOMAIN transformed : IsStr(transformed[k])

\* C2 witness: a record of two columns, a missing first name and a
\* website, with no owner set, transformed into 11 strings: the cleaned
\* domain and ten empty ones
C2_Witness ==
    /\ calls # << >>
    /\ arg.contact_owner = << >> /\ arg.account_owner = << >>
    /\ DOMAIN arg.record = {"First Name", "Website"}
    /\ arg.record["First Name"] = Null
    /\ arg.record["Website"] = DemoUrl
    /\ calls[1].ret.transformed["account_domain_name"] # << >>
    /\ \A k \in TemplateFields \ {"account_domain_name"} :
         calls[1].ret.transformed[k] = << >>

\* the steps of a sequence that are about the given field
StepsOf(steps, field) ==
    LET about(st) == st.field = field
    IN  SelectSeq(steps, about)

\* what C14 says of one owner: the id owner, the destination field key, the
\* steps the call returned, the step's field label and its action
OwnerStamped(transformed, steps, owner, key, label, action) ==
    IF owner # << >>
    THEN /\ transformed[key] = owner
         /\ Len(StepsOf(steps, label)) = 1
         /\ StepsOf(steps, label)[1].original = << "E", "m", "p", "t", "y" >>
         /\ StepsOf(steps, label)[1].cleaned = owner
         /\ StepsOf(steps, label)[1].action = << action >>
    ELSE /\ transformed[key] = << >>
         /\ StepsOf(steps, label) = << >>

\* C14: transform_record stamps a non-empty contact (account) owner id
\* verbatim into contact_owner_id (account_owner_id) and appends exactly one
\* step for it, with original 'Empty' and action 'Set default contact
\* owner' ('Set default account owner'); with an empty owner id the field
\* stays the empty string and no owner step is appended.
C14_OwnerStamped ==
    \A i \in 1..Len(calls) :
      LET c == calls[i]
      IN  /\ OwnerStamped(c.ret.transformed, c.ret.steps, c.arg.contact_owner,
                          "contact_owner_id", "Contact Owner",
                          "Set default contact owner")
          /\ OwnerStamped(c.ret.transformed, c.ret.steps, c.arg.account_owner,
                          "account_owner_id", "Account Owner",
                          "Set default account owner")

\* C14 witness: a call with a contact owner of one blank, stamped as it is,
\* and no account owner, on a record that has steps of its own
C14_Witness ==
    /\ calls # << >>
    /\ arg.contact_owner = << " " >> /\ arg.account_owner = << >>
    /\ calls[1].ret.transformed["contact_owner_id"] = << " " >>
    /\ calls[1].ret.transformed["account_owner_id"] = << >>
    /\ Len(calls[1].ret.steps) >= 3
    /\ calls[1].ret.steps[1].field = "Contact Owner"

\* the source value of a column as line 249 reads it: there and not missing
Given(record, column) == column \in DOMAIN record /\ record[column] # Null

\* C15: for every entry of the field mapping other than Website the
\* destination field is the trimmed string of the source value when the
\* source field is present and non-null, and the empty string when it is
\* absent or null; Website alone goes through clean_domain; absent fields
\* raise nothing, the call returns its record.
C15_MappedVerbatim ==
    \A i \in 1..Len(calls) :
      LET c == calls[i]
      IN  \A k \in 1..Len(hubspot_to_reevo_mapping) :
            LET column == hubspot_to_reevo_mapping[k][1]
                field == hubspot_to_reevo_mapping[k][2]
            IN  /\ field \in DOMAIN c.ret.transformed
                /\ c.ret.transformed[field] =
                     IF ~Given(c.arg.record, column) THEN << >>
                     ELSE IF column = "Website"
                     THEN clean_domain(strip(c.arg.record[column]), << >>).ret
                     ELSE strip(c.arg.record[column])

\* C15 witness: a first name with blanks around it came out trimmed, an
\* absent last name and a missing email came out empty, and the website
\* came out as clean_domain made it, not as it was
C15_Witness ==
    /\ calls # << >>
    /\ {"First Name", "Email", "Website"} \subseteq DOMAIN arg.record
    /\ arg.record["First Name"] = << " ", "A", "n", "n", " " >>
    /\ "Last Name" \notin DOMAIN arg.record
    /\ arg.record["Email"] = Null
    /\ calls[1].ret.transformed["contact_first_name"] = << "A", "n", "n" >>
    /\ calls[1].ret.transformed["contact_last_name"] = << >>
    /\ calls[1].ret.transformed["contact_primary_email"] = << >>
    /\ calls[1].ret.transformed["account_domain_name"] # strip(arg.record["Website"])

\* ------------------------------------------------------------- the wizard
\* pd.DataFrame(records, columns=columns): one row per record, holding the
\* named columns in order, a missing value where the record has none
\* a plausible slip: the columns taken in the opposite order
DataFrame_reversed(records, columns) ==
    [columns |-> [j \in 1..Len(columns) |-> columns[Len(columns) + 1 - j]],
     rows |-> [i \in 1..Len(records) |->
                 [c \in Range(columns) |->
                    IF c \in DOMAIN records[i] THEN records[i][c] ELSE Null]]]

DataFrame(records, columns) ==
    [columns |-> columns,
     rows |-> [i \in 1..Len(records) |->
                 [c \in Range(columns) |->
                    IF c \in DOMAIN records[i] THEN records[i][c] ELSE Null]]]

\* len(df)
len(df) == Len(df.rows)

\* df.iloc[indexes], the indexes 0-based
iloc(df, indexes) ==
    [columns |-> df.columns,
     rows |-> [j \in 1..Len(indexes) |-> df.rows[indexes[j] + 1]]]

\* df.to_csv(index=False): the header line, then one line of cells per row
\* in column order, a missing value written as the empty cell
to_csv(df) ==
    << df.columns >>
    \o [i \in 1..len(df) |->
          [j \in 1..Len(df.columns) |->
             IF isna(df.rows[i][df.columns[j]]) THEN << >>
             ELSE str(df.rows[i][df.columns[j]])]]

\* the uploaded file: a csv file that pd.read_csv parses to a table, or one
\* it raises on
Unreadable == [readable |-> FALSE]
CsvFile(table) == [readable |-> TRUE, table |-> table]

\* line 907: the name the steps of a row are tagged with
record_name(record) ==
    str(get_or(record, "First Name", Unknown)) \o << " " >>
    \o str(get_or(record, "Last Name", << >>))

\* a plausible slip: the rows counted from 1 in the tag
tag_steps_from_one(steps, record_index, name) ==
    [k \in 1..Len(steps) |->
       [record_index |-> record_index + 1, record_name |-> name] @@ steps[k]]

\* lines 905-908: the steps of a row tagged with its index and name
tag_steps(steps, record_index, name) ==
    [k \in 1..Len(steps) |->
       [record_index |-> record_index, record_name |-> name] @@ steps[k]]

\* lines 902-910 for one row, r being what transform_record returned; the
\* list returned is the transformer's buffer, which so holds the tagged steps
row_cleaned(acc, r, record_index, name) ==
    [transformed_records |-> Append(acc.transformed_records, r.transformed),
     all_cleaning_steps |->
       acc.all_cleaning_steps \o tag_steps(r.steps, record_index, name),
     buffer |-> tag_steps(r.steps, record_index, name)]

\* lines 834-840: the preview of step 2 transforms the first row, if any,
\* on the transformer of this run (line 475); what its buffer holds after
sample_steps(raw_df, contact, account) ==
    IF len(raw_df) > 0
    THEN transform_record(raw_df.rows[1], 0, contact, account).steps
    ELSE << >>

\* lines 900-910 from row i on: transform each row, tag its steps with the
\* row's index and name, and append them to the log
RECURSIVE clean_rows(_, _, _, _, _)
clean_rows(raw_df, i, contact, account, acc) ==
    IF i > len(raw_df) THEN acc
    ELSE clean_rows(raw_df, i + 1, contact, account,
                    row_cleaned(acc,
                                transform_record_on(acc.buffer, raw_df.rows[i],
                                                    i - 1, contact, account),
                                i - 1, record_name(raw_df.rows[i])))

\* a plausible slip: lines 1066-1069 without the else
classify_no_else(lists, i, errors) ==
    [valid_records |-> Append(lists.valid_records, i),
     invalid_records |-> IF errors # << >> THEN Append(lists.invalid_records, i)
                         ELSE lists.invalid_records,
     raises |-> lists.raises]

\* lines 1066-1069: the index goes to the invalid list if the record has
\* errors and to the valid list if it has none
classify(lists, i, errors) ==
    IF errors # << >>
    THEN [lists EXCEPT !.invalid_records = Append(@, i)]
    ELSE [lists EXCEPT !.valid_records = Append(@, i)]

RECURSIVE validate_rows(_, _, _)
\* lines 1051-1069 for row i, v being what validate_record returned
row_validated(transformed_df, i, lists, v) ==
    IF v.raises THEN [lists EXCEPT !.raises = TRUE]
    ELSE validate_rows(transformed_df, i + 1, classify(lists, i - 1, v.errors))

\* lines 1050-1069 from row i on
validate_rows(transformed_df, i, lists) ==
    IF i > len(transformed_df) THEN lists
    ELSE row_validated(transformed_df, i, lists,
                       validate_record(transformed_df.rows[i], i - 1))

NoLists == [valid_records |-> << >>, invalid_records |-> << >>, raises |-> FALSE]

\* a plausible slip: the export of line 1197 taking every row
export_indexes_all(transformed_df) ==
    [valid_records |-> [i \in 1..len(transformed_df) |-> i - 1],
     invalid_records |-> << >>, raises |-> FALSE]

\* lines 1194-1195: the index is kept if the record has no error
keep(lists, i, errors) ==
    IF errors = << >> THEN [lists EXCEPT !.valid_records = Append(@, i)]
    ELSE lists

RECURSIVE export_rows(_, _, _)
\* lines 1193-1195 for row i, v being what validate_record returned
row_exported(transformed_df, i, lists, v) ==
    IF v.raises THEN [lists EXCEPT !.raises = TRUE]
    ELSE export_rows(transformed_df, i + 1, keep(lists, i - 1, v.errors))

\* lines 1192-1195 from row i on
export_rows(transformed_df, i, lists) ==
    IF i > len(transformed_df) THEN lists
    ELSE row_exported(transformed_df, i, lists,
                      validate_record(transformed_df.rows[i], i - 1))

\* lines 1190-1195: the indexes of the rows validate_record has no error for
export_indexes(transformed_df) == export_rows(transformed_df, 1, NoLists)

\* The five steps of the script main(), each on the session s as the steps
\* before it left it.
\* Step 1, lines 498-708: read the uploaded file, store the table.
step1(s, file) ==
    IF file = None THEN s
    ELSE IF ~file.readable
    THEN [s EXCEPT !.view.error = "Error reading file"]
    ELSE [s EXCEPT !.raw_data = file.table,
                   !.view.buttons = @ \cup {"Proceed to Field Mapping"}]

\* Step 2, lines 739-877: store what the owner inputs hold.
step2(s, contact_input, account_input) ==
    IF s.step >= 2 /\ s.raw_data # None
    THEN [s EXCEPT !.contact_owner = contact_input,
                   !.account_owner = account_input,
                   !.view.buttons = @ \cup {"Proceed to Data Cleaning"}]
    ELSE s

\* lines 916-922: the table and the log go into the session
store_cleaned(s, r) ==
    [s EXCEPT !.transformed_data =
                DataFrame(r.transformed_records, reevo_template_headers),
              !.cleaning_log = r.all_cleaning_steps,
              !.view.buttons = @ \cup {"Proceed to Data Validation"}]

\* a plausible slip: step 3 transforming only when no table is stored yet
step3_once(s) ==
    IF s.step >= 3 /\ s.raw_data # None /\ s.transformed_data = None
    THEN store_cleaned(s, clean_rows(s.raw_data, 1, s.contact_owner, s.account_owner,
                               [transformed_records |-> << >>,
                                all_cleaning_steps |-> << >>,
                                buffer |-> << >>]))
    ELSE s

\* Step 3, lines 880-1029: transform every row, store table and log.
step3(s) ==
    IF s.step >= 3 /\ s.raw_data # None
    THEN store_cleaned(s, clean_rows(s.raw_data, 1, s.contact_owner, s.account_owner,
                               [transformed_records |-> << >>,
                                all_cleaning_steps |-> << >>,
                                buffer |-> sample_steps(s.raw_data, s.contact_owner,
                                                        s.account_owner)]))
    ELSE s

\* lines 1072-1172 with the two lists made: the success rate of line 1085
\* divides by the number of rows
show_validated(s, lists) ==
    IF lists.raises
    THEN [s EXCEPT !.aborted = TRUE, !.view.error = "AttributeError"]
    ELSE IF len(s.transformed_data) = 0
    THEN [s EXCEPT !.view.validated = TRUE,
                   !.aborted = TRUE, !.view.error = "ZeroDivisionError"]
    ELSE [s EXCEPT !.view.validated = TRUE,
                   !.view.valid_records = lists.valid_records,
                   !.view.invalid_records = lists.invalid_records,
                   !.view.buttons =
                     IF Len(lists.valid_records) > 0
                     THEN @ \cup {"Generate Reevo Import File"} ELSE @]

\* Step 4, lines 1032-1181: validate every row.
step4(s) ==
    IF s.step >= 4 /\ s.transformed_data # None
    THEN show_validated(s, validate_rows(s.transformed_data, 1, NoLists))
    ELSE s

\* lines 1199-1354 with the export table made: the success rate of line
\* 1211 divides by the number of raw rows
make_download(s, final_df) ==
    IF s.raw_data = None
    THEN [s EXCEPT !.aborted = TRUE, !.view.error = "TypeError",
                   !.view.final_df = final_df]
    ELSE IF len(s.raw_data) = 0
    THEN [s EXCEPT !.aborted = TRUE, !.view.error = "ZeroDivisionError",
                   !.view.final_df = final_df]
    ELSE [s EXCEPT !.view.final_df = final_df,
                   !.view.exported = TRUE,
                   !.view.csv_data = to_csv(final_df),
                   !.view.buttons = @ \cup {"Process Another File"}]

\* line 1197 with the indexes of the rows to keep
select_valid(s, lists) ==
    IF lists.raises
    THEN [s EXCEPT !.aborted = TRUE, !.view.error = "AttributeError"]
    ELSE make_download(s, iloc(s.transformed_data, lists.valid_records))

\* Step 5, lines 1184-1354: keep the rows without errors, make the download.
step5(s) ==
    IF s.step >= 5 /\ s.transformed_data # None
    THEN select_valid(s, export_indexes(s.transformed_data))
    ELSE s

\* the session state as a record, with the view a run builds and whether
\* an uncaught exception has ended it
Session ==
    [step |-> step, raw_data |-> raw_data, transformed_data |-> transformed_data,
     cleaning_log |-> cleaning_log, contact_owner |-> contact_owner,
     account_owner |-> account_owner, view |-> NoView, aborted |-> FALSE]

\* A user interaction reruns the script on session s0 with the widgets as
\* given: the five steps from top to bottom, an uncaught exception ending
\* the run where it is raised.  An owner text input that the run does not
\* render loses its text.
Rerun(s0, file, contact_input, account_input) ==
    \E s1 \in {step1(s0, file)} :
    \E s2 \in {step2(s1, contact_input, account_input)} :
    \E s3 \in {step3(s2)} :
    \E s4 \in {step4(s3)} :
    \E s \in {IF s4.aborted THEN s4 ELSE step5(s4)} :
        /\ step' = s.step
        /\ raw_data' = s.raw_data
        /\ transformed_data' = s.transformed_data
        /\ cleaning_log' = s.cleaning_log
        /\ contact_owner' = s.contact_owner
        /\ account_owner' = s.account_owner
        /\ view' = s.view
        /\ uploaded_file' = file
        /\ contact_owner_input' =
             IF "Proceed to Data Cleaning" \in s.view.buttons
             THEN contact_input ELSE << >>
        /\ account_owner_input' =
             IF "Proceed to Data Cleaning" \in s.view.buttons
             THEN account_input ELSE << >>
        /\ UNCHANGED engine

\* ----------------------------------------------------- inputs: uploads
TableColumns ==
    << "First Name", "Last Name", "Email", "Mobile", "Personal Linkedin URL",
       "Company Name", "Website" >>

\* a row of usual cells with no LinkedIn address, which passes validation
RowValid ==
    [c \in Range(TableColumns) |->
       IF c = "Personal Linkedin URL" THEN Null ELSE UsualCell[c]]

\* a row that passes with a warning: a phone and no email, an odd LinkedIn
RowWarned ==
    [RowValid EXCEPT !["Email"] = Null,
                     !["Mobile"] = << "x", "5" >>,
                     !["Personal Linkedin URL"] = << "x" >>,
                     !["Website"] = DemoClean]

\* a row that fails: no first name, a malformed email
RowInvalid ==
    [RowValid EXCEPT !["First Name"] = Null, !["Email"] = << "b", "a", "d" >>]

\* the rows of the uploaded tables: one that is exported, one that is not
SampleRows == {RowWarned, RowInvalid}

\* the tables of at most n rows
RECURSIVE RowSeqs(_)
RowSeqs(n) ==
    IF n = 0 THEN {<< >>}
    ELSE LET shorter == RowSeqs(n - 1)
         IN  shorter \cup {Append(s, r) : s \in shorter, r \in SampleRows}

\* the uploads: a file that cannot be read, the tables of sample rows, and
\* a table of two different rows that both pass validation
Uploads ==
    {Unreadable}
    \cup {CsvFile(DataFrame(rows, TableColumns)) :
            rows \in RowSeqs(MaxRecords) \cup {<< RowValid, RowWarned >>}}

\* ----------------------------------------------------------- the actions
\* the user puts a file into the uploader
Upload ==
    \E file \in Uploads : \E s0 \in {Session} :
      Rerun(s0, file, contact_owner_input, account_owner_input)

\* the user takes the file out of the uploader
RemoveFile ==
    /\ uploaded_file # None
    /\ \E s0 \in {Session} :
         Rerun(s0, None, contact_owner_input, account_owner_input)

\* the user types into the owner inputs of step 2
TypeOwners ==
    /\ "Proceed to Data Cleaning" \in view.buttons
    /\ \E contact \in OwnerIds, account \in OwnerIds :
         /\ << contact, account >> # << contact_owner_input, account_owner_input >>
         /\ \E s0 \in {Session} : Rerun(s0, uploaded_file, contact, account)

\* A button that the last run rendered is pressed: the run it starts sets
\* the step at the button's line and st.rerun() starts the script again.
Press(button, next) ==
    /\ button \in view.buttons
    /\ \E s0 \in {[Session EXCEPT !.step = next]} :
         Rerun(s0, uploaded_file, contact_owner_input, account_owner_input)

ProceedToFieldMapping == Press("Proceed to Field Mapping", 2)
ProceedToDataCleaning == Press("Proceed to Data Cleaning", 3)
ProceedToDataValidation == Press("Proceed to Data Validation", 4)
GenerateImportFile == Press("Generate Reevo Import File", 5)

\* lines 1350-1354: the four keys are deleted and the next run sets them
\* anew (lines 466-473)
ProcessAnotherFile ==
    /\ "Process Another File" \in view.buttons
    /\ \E s0 \in {[Session EXCEPT !.step = 1, !.raw_data = None,
                                   !.transformed_data = None,
                                   !.cleaning_log = << >>]} :
         Rerun(s0, uploaded_file, contact_owner_input, account_owner_input)

Init == InitWizard /\ InitEngine /\ arg = Null

Next ==
    \/ Upload
    \/ RemoveFile
    \/ TypeOwners
    \/ ProceedToFieldMapping
    \/ ProceedToDataCleaning
    \/ ProceedToDataValidation
    \/ GenerateImportFile
    \/ ProcessAnotherFile

Spec == Init /\ [][Next]_vars

\* ------------------------------------------------------ the wizard: claims
\* the 0-based indexes of the stored transformed rows that validate_record
\* finds no error in, in order
ErrorFree ==
    LET n == len(transformed_data)
        ok(i) == validate_record(transformed_data.rows[i + 1], i).errors = << >>
    IN  SelectSeq([i \in 1..n |-> i - 1], ok)

\* a row as a line of the csv file
CsvLine(row) == [j \in 1..Len(reevo_template_headers) |-> row[reevo_template_headers[j]]]

\* C1: the export of step 5 holds exactly the transformed records that
\* validate_record returns no error for: no record with an error is in the
\* file, and every record without one is.
C1_ExportOnlyValid ==
    view.exported =>
      /\ transformed_data # None
      /\ \A k \in 1..len(view.final_df) :
           validate_record(view.final_df.rows[k], k - 1).errors = << >>
      /\ Len(view.csv_data) = len(view.final_df) + 1
      /\ \A k \in 1..len(view.final_df) :
           view.csv_data[k + 1] = CsvLine(view.final_df.rows[k])
      /\ len(view.final_df) = Len(ErrorFree)
      /\ \A k \in 1..Len(ErrorFree) :
           view.final_df.rows[k] = transformed_data.rows[ErrorFree[k] + 1]

\* C1 witness: an export made from a table of two records, the first with
\* errors and left out, the second without and in the file
C1_Witness ==
    /\ view.exported
    /\ len(transformed_data) = 2
    /\ ErrorFree = << 1 >>
    /\ Len(view.csv_data) = 2

\* C3: after the validation stage every record index is in exactly one of
\* the valid and the invalid list, in the invalid one if and only if
\* validate_record returned an error, so the two lists count N together.
C3_Partition ==
    view.validated =>
      LET n == len(transformed_data)
          valid == Range(view.valid_records)
          invalid == Range(view.invalid_records)
      IN  /\ transformed_data # None
          /\ valid \cup invalid = 0..(n - 1)
          /\ valid \cap invalid = {}
          /\ Len(view.valid_records) + Len(view.invalid_records) = n
          /\ \A i \in 0..(n - 1) :
               i \in invalid
                 <=> validate_record(transformed_data.rows[i + 1], i).errors # << >>

\* C3 witness: a validated table of two records, one in each list
C3_Witness ==
    /\ view.validated
    /\ len(transformed_data) = 2
    /\ view.valid_records = << 0 >>
    /\ view.invalid_records = << 1 >>

\* the 11 destination fields in the order of the import template
TemplateOrder ==
    << "contact_owner_id", "contact_first_name", "contact_last_name",
       "contact_primary_email", "contact_primary_phone_number",
       "contact_linkedin_url", "contact_account_role_title", "account_owner_id",
       "account_name", "account_domain_name", "account_linkedin_url" >>

\* the destination record of the raw row i (0-based) under the owners set
Destination(i) ==
    transform_record(raw_data.rows[i + 1], i, contact_owner, account_owner).transformed

\* C16: the exported table has exactly the 11 destination fields as columns
\* in the template order, and one row per valid record, in input order, and
\* no row for an invalid record.
C16_TemplateColumns ==
    view.exported =>
      /\ view.final_df.columns = TemplateOrder
      /\ view.csv_data[1] = TemplateOrder
      /\ \A k \in 1..len(view.final_df) :
           DOMAIN view.final_df.rows[k] = Range(TemplateOrder)
      /\ \A k \in 2..Len(view.csv_data) : Len(view.csv_data[k]) = Len(TemplateOrder)
      /\ LET valid(i) == validate_record(Destination(i), i).errors = << >>
             kept == SelectSeq([i \in 1..len(raw_data) |-> i - 1], valid)
         IN  /\ len(view.final_df) = Len(kept)
             /\ \A k \in 1..Len(kept) :
                  view.final_df.rows[k] = Destination(kept[k])

\* C16 witness: an export of two different rows, in the order they were
\* uploaded in
C16_Witness ==
    /\ view.exported
    /\ len(view.final_df) = 2
    /\ view.final_df.rows[1] # view.final_df.rows[2]
    /\ view.final_df.rows[1] = Destination(0)

\* C17: when loading the uploaded table fails, the run reports the error
\* and goes no further: it renders no cleaning stage, so transforms no
\* record, and validates and exports none.
C17_FailedLoadStops ==
    view.error = "Error reading file" =>
      /\ "Proceed to Data Validation" \notin view.buttons
      /\ ~view.validated
      /\ ~view.exported

\* ------------------------------- transform_record, called again and again
\* the records given to one engine: a usual one, the same with another value
\* in the column nothing maps, an unusual one and one of missing values
EngineRecords ==
    { Record(UsualCell),
      Record([UsualCell EXCEPT !["Lead Status"] = << "N", "e", "w" >>]),
      Record(UnusualCell),
      Record([c \in SourceColumns |-> Null]) }

EngineArgs ==
    [record : EngineRecords, contact_owner : OwnerIds, account_owner : OwnerIds]

InitCalls ==
    /\ InitWizard
    /\ InitEngine
    /\ arg = Null

\* one more call of transform_record on the engine; the caller holds every
\* list returned so far (held: its items now, and whether it is the buffer)
CallTransformAgain ==
    /\ Len(calls) < MaxCalls
    /\ \E a \in EngineArgs :
         \E r \in {transform_record_on(cleaning_steps, a.record, Len(calls),
                                       a.contact_owner, a.account_owner)} :
           /\ calls' =
                Append([i \in 1..Len(calls) |->
                          [calls[i] EXCEPT !.held = follow(rebind(@), r.steps)]],
                       [op |-> "transform_record",
                        arg |-> [record |-> a.record, record_index |-> Len(calls),
                                 contact_owner |-> a.contact_owner,
                                 account_owner |-> a.account_owner],
                        ret |-> r, before |-> cleaning_steps,
                        held |-> [is_buffer |-> TRUE, items |-> r.steps]])
           /\ cleaning_steps' = r.steps
    /\ UNCHANGED << session, widgets, view, arg >>

SpecCalls == InitCalls /\ [][CallTransformAgain]_vars

\* the steps that transforming the record of a call, by itself, produces
OwnSteps(call) ==
    transform_from(<< >>, call.arg.record, call.arg.record_index,
                   call.arg.contact_owner, call.arg.account_owner).steps

\* C18: in any sequence of transform_record calls on one engine, the steps a
\* call returns are the steps produced while transforming its own record and
\* no others, and the list a call returned still holds, after every later
\* call, what it held when it was returned.
C18_OwnStepsOnly ==
    \A i \in 1..Len(calls) :
      /\ calls[i].ret.steps = OwnSteps(calls[i])
      /\ calls[i].held.items = calls[i].ret.steps

\* C18 witness: a call that returned steps, followed by a call that
\* returned other steps, the buffer not empty when it started
C18_Witness ==
    /\ Len(calls) = 2
    /\ calls[1].ret.steps # << >>
    /\ calls[2].before = calls[1].ret.steps
    /\ calls[2].ret.steps # << >>
    /\ calls[2].ret.steps # calls[1].ret.steps
    /\ ~calls[1].held.is_buffer

\* the columns transform_record reads: the 8 mapped ones and the 3 of phones
ColumnsRead ==
    {m[1] : m \in Range(hubspot_to_reevo_mapping)} \cup Range(phone_fields)

\* what a call was given in the columns read, and the owner ids
Relevant(call) ==
    [record |-> [c \in DOMAIN call.arg.record \cap ColumnsRead |-> call.arg.record[c]],
     contact_owner |-> call.arg.contact_owner,
     account_owner |-> call.arg.account_owner]

\* C19: two calls of transform_record on one engine given the same owner
\* ids and records that agree on the 8 mapped columns and the 3 phone
\* columns return the same destination record and the same steps, whatever
\* was transformed before either and whatever else the records hold.
C19_Independent ==
    \A i \in 1..Len(calls) : \A j \in 1..Len(calls) :
      Relevant(calls[i]) = Relevant(calls[j]) => calls[i].ret = calls[j].ret

\* C19 witness: the second call is given a record that differs from the
\* first only in a column nothing maps, after a call that left steps
C19_Witness ==
    /\ Len(calls) = 2
    /\ calls[1].arg.record # calls[2].arg.record
    /\ Relevant(calls[1]) = Relevant(calls[2])
    /\ calls[2].before # << >>
    /\ calls[2].ret.steps # << >>

\* ------------------------------------------------ the log of the wizard
\* the steps transform_record returns for the raw row i (0-based) under the
\* owners set
Returned(i) ==
    transform_record(raw_data.rows[i + 1], i, contact_owner, account_owner).steps

\* the number of steps returned for the rows before row i
RECURSIVE Before(_)
Before(i) == IF i = 0 THEN 0 ELSE Before(i - 1) + Len(Returned(i - 1))

\* an entry of the log without the two tags of lines 906-907
Untagged(entry) ==
    [f \in DOMAIN entry \ {"record_index", "record_name"} |-> entry[f]]

\* C20: after the cleaning stage has run over the N rows uploaded, the log
\* in the session is the steps returned for row 0, then those for row 1 and
\* so on: its length is the sum of the rows' step counts, each entry is the
\* step returned at its place tagged with the index of its row, and the
\* indexes never decrease along the log.
C20_LogInOrder ==
    "Proceed to Data Validation" \in view.buttons =>
      /\ Len(cleaning_log) = Before(len(raw_data))
      /\ \A i \in 0..(len(raw_data) - 1) : \A k \in 1..Len(Returned(i)) :
           /\ cleaning_log[Before(i) + k].record_index = i
           /\ Untagged(cleaning_log[Before(i) + k]) = Returned(i)[k]
      /\ \A k \in 1..(Len(cleaning_log) - 1) :
           cleaning_log[k].record_index <= cleaning_log[k + 1].record_index

\* C20 witness: the cleaning stage has run over two rows that returned
\* different steps, more than one for the first
C20_Witness ==
    /\ "Proceed to Data Validation" \in view.buttons
    /\ len(raw_data) = 2
    /\ Len(Returned(0)) > 1
    /\ Returned(1) # << >>
    /\ Returned(0) # Returned(1)
    /\ Len(cleaning_log) = Len(Returned(0)) + Len(Returned(1))

\* ------------------------------------- clean_domain: the www. prefix
\* hosts in which www. occurs at the start, inside, both or not at all
WwwHosts ==
    TokenStrings({ S_www,
                   << "a", "y", "r", "w", "e", "l", "l", "n", "e", "s", "s", ".", "c", "o", "m" >>,
                   << "e", "w", "w", "w", ".", "c", "o", "m" >> }, MaxTokens) \ {<< >>}

\* a host without the www. it starts with, if it starts with one
WithoutLeadingWww(host) ==
    IF startswith(host, S_www) THEN SubSeq(host, Len(S_www) + 1, Len(host)) ELSE host

\* C21: clean_domain strips only a www. the host starts with: for an input
\* [http:// or https://]host[/path] the result is the lower-cased host
\* without its leading www., every other www. of the host left in place.
C21_OnlyLeadingWww ==
    calls # << >> =>
      \A p \in Protocols, h \in WwwHosts :
        (/\ calls[1].arg # Null
         /\ startswith(calls[1].arg, p \o h)
         /\ (Len(calls[1].arg) = Len(p \o h) \/ calls[1].arg[Len(p \o h) + 1] = "/"))
        => calls[1].ret = lower(WithoutLeadingWww(h))

\* C22: for every Website value that is not blank once trimmed,
\* transform_record yields a destination record whose account_domain_name
\* is not empty.
C22_DomainNeverNulled ==
    \A i \in 1..Len(calls) :
      (/\ "Website" \in DOMAIN calls[i].arg.record
       /\ calls[i].arg.record["Website"] # Null
       /\ strip(calls[i].arg.record["Website"]) # << >>)
      => calls[i].ret.transformed["account_domain_name"] # << >>

\* ------------------------------------- clean_domain: the except branch
\* the trimmed input without its http://, https:// and www. substrings, cut
\* at the first "/" and lower-cased
BasicCleaning(website) ==
    lower(split0(replace(replace(replace(strip(website), S_http, << >>),
                                 S_https, << >>), S_www, << >>), "/"))

\* C23: when parsing the url fails, clean_domain returns the trimmed input
\* without its http://, https:// and www. substrings, cut at the first "/"
\* and lower-cased, and appends one step, whose action contains "Fallback
\* cleaning", whether or not the result differs from the lower-cased input.
C23_FallbackCleaning ==
    \A i \in 1..Len(calls) :
      calls[i].fallback =>
        /\ calls[i].ret = BasicCleaning(calls[i].arg)
        /\ ~contains(calls[i].ret, << "/" >>)
        /\ calls[i].ret = lower(calls[i].ret)
        /\ KeepsBuffer(calls[i])
        /\ Len(Appended(calls[i])) = 1
        /\ "Fallback cleaning" \in Range(Appended(calls[i])[1].action)
        /\ Appended(calls[i])[1].original = strip(calls[i].arg)
        /\ Appended(calls[i])[1].cleaned = calls[i].ret

\* C23 witness: parsing failed for an input that the cleaning changed, and
\* failed again for the result, which came back as it was, with a step
C23_Witness ==
    /\ Len(calls) = 2
    /\ calls[1].fallback /\ calls[2].fallback
    /\ calls[1].ret # lower(strip(calls[1].arg))
    /\ calls[2].ret = lower(strip(calls[2].arg))
    /\ Len(Appended(calls[2])) = 1

\* ------------------------------------------------- clean_phone, by itself
PhoneTokens ==
    { << "+", "1" >>, << " " >>, << "(", "2", ")" >>, << "-" >>,
      << "x" >>, << "." >>, << "\t" >> }

PhoneInputs == TokenStrings(PhoneTokens, MaxTokens) \cup {Null}

InitCleanPhone ==
    /\ InitWizard
    /\ InitEngine
    /\ arg \in PhoneInputs

\* clean_phone(arg), then clean_phone of what it returned
CallCleanPhone ==
    /\ Len(calls) < MaxCalls
    /\ \E phone \in {IF calls = << >> THEN arg ELSE calls[Len(calls)].ret} :
         \E r \in {clean_phone(phone, cleaning_steps)} :
           /\ calls' = Append(calls, [op |-> "clean_phone", arg |-> phone,
                                      ret |-> r.ret,
                                      before |-> cleaning_steps, after |-> r.steps])
           /\ cleaning_steps' = r.steps
    /\ UNCHANGED << session, widgets, view, arg >>

SpecCleanPhone == InitCleanPhone /\ [][CallCleanPhone]_vars

\* the characters of a phone number: the digits, + - ( ) and whitespace
PhoneChars ==
    { "0", "1", "2", "3", "4", "5", "6", "7", "8", "9",
      "+", "-", "(", ")", " ", "\t", "\n", "\r" }

\* the input of a call as a trimmed string, "" for a missing value
Trimmed(v) == IF v = Null THEN << >> ELSE strip(v)

\* C24: clean_phone returns the trimmed input without the characters that
\* are no digit, + - ( ) or whitespace, the others in their order, and
\* appends a "Remove special characters" step exactly when that differs
\* from the trimmed input.
C24_PhoneCleaned ==
    \A i \in 1..Len(calls) :
      /\ calls[i].ret = SelectSeq(Trimmed(calls[i].arg), LAMBDA c : c \in PhoneChars)
      /\ KeepsBuffer(calls[i])
      /\ Len(Appended(calls[i])) = IF calls[i].ret # Trimmed(calls[i].arg) THEN 1 ELSE 0
      /\ \A k \in 1..Len(Appended(calls[i])) :
           /\ Appended(calls[i])[k].action = << "Remove special characters" >>
           /\ Appended(calls[i])[k].original = Trimmed(calls[i].arg)
           /\ Appended(calls[i])[k].cleaned = calls[i].ret

\* C24 witness: a number followed by white space and a character that is
\* removed, cleaned with one step, the white space kept; what was returned
\* is trimmed and cleaned again with no step
C24_Witness ==
    /\ Len(calls) = 2
    /\ calls[1].arg = << "+", "1", " ", "x" >>
    /\ calls[1].ret = << "+", "1", " " >>
    /\ Len(Appended(calls[1])) = 1
    /\ calls[2].ret = << "+", "1" >>
    /\ Appended(calls[2]) = << >>

\* C25: whenever Mobile, Direct or Office holds a value whose cleaned form
\* is not empty, transform_record yields a contact_primary_phone_number
\* that is not empty.
C25_UsablePhoneKept ==
    \A i \in 1..Len(calls) :
      (\E f \in Range(phone_fields) :
         /\ f \in DOMAIN calls[i].arg.record
         /\ calls[i].arg.record[f] # Null
         /\ SelectSeq(strip(calls[i].arg.record[f]), LAMBDA c : c \in PhoneChars) # << >>)
      => calls[i].ret.transformed["contact_primary_phone_number"] # << >>

\* C26: the step is always in 1..5; it never decreases but by a reset, which
\* takes it to 1, and it rises only by one, from 1 to 2 only when the last
\* run parsed an uploaded file and from 4 to 5 only when the last run found
\* a valid record.
C26_StepByStep ==
    [][/\ step' \in 1..5
       /\ (step' < step => step' = 1)
       /\ (step' > step => step' = step + 1)
       /\ ((step = 1 /\ step' = 2) => "Proceed to Field Mapping" \in view.buttons)
       /\ ((step = 4 /\ step' = 5) => Len(view.valid_records) > 0)]_vars

\* C27: in every state of the wizard, step >= 2 implies that a raw table is
\* stored, and step >= 4 implies that a transformed table is stored, which
\* is the transformation of the raw table stored under the owners set.
C27_TablesStored ==
    /\ step >= 2 => raw_data # None
    /\ step >= 4 =>
         /\ transformed_data # None
         /\ transformed_data =
              DataFrame([i \in 1..len(raw_data) |-> Destination(i - 1)],
                        reevo_template_headers)

\* C27 witness: at step 4 or 5, with owners typed in and a table of two rows
\* stored that is no longer the file in the uploader
C27_Witness ==
    /\ step >= 4
    /\ raw_data # None
    /\ len(raw_data) = 2
    /\ contact_owner # << >>
    /\ uploaded_file # None
    /\ uploaded_file # CsvFile(raw_data)

\* C28: whenever step 5 generates the import file, after any uploads and
\* button presses, the file holds at least one record.
C28_ExportNotEmpty ==
    view.exported =>
      /\ len(view.final_df) >= 1
      /\ Len(view.csv_data) >= 2

\* C29: pressing Process Another File deletes step, raw_data,
\* transformed_data and cleaning_log: after the run it starts the step is 1,
\* no raw table and no transformed table are stored and the log is empty.
C29_ResetClears ==
    [][ProcessAnotherFile =>
         /\ step' = 1
         /\ raw_data' = None
         /\ transformed_data' = None
         /\ cleaning_log' = << >>]_vars

\* C30: the success rates of the validation and export stages never divide
\* by zero: whenever step 4 or step 5 runs, the transformed table and the
\* raw table hold at least one record each, a header-only upload included.
C30_NoDivisionByZero ==
    /\ view.error # "ZeroDivisionError"
    /\ view.validated => len(transformed_data) >= 1
    /\ view.exported => len(raw_data) >= 1

====
